---- MODULE Spec2Model ----
(***************************************************************************)
(* A model of snake_pixels (src/src/main.rs): the game State, its step,    *)
(* food spawning and key handling, and the winit event handler that drives *)
(* them.                                                                   *)
(*                                                                         *)
(* Time.  The program only ever compares a stored Instant with             *)
(* Instant::now().  The model keeps every stored Instant as its offset     *)
(* from the current instant, so Instant::now() is the origin (Now) and the *)
(* passing of d milliseconds lowers every stored Instant by d.  An Instant *)
(* that lies in the past is kept as Now - 1: how far in the past it lies   *)
(* is never observed.  Time passes between two events (TimePasses); one    *)
(* call of a handler reads the same instant throughout.                    *)
(*                                                                         *)
(* Grid.  The program plays on a 15 x 15 grid.  The event-loop             *)
(* specification Spec plays the same game on a GridW x GridH grid, with    *)
(* the snake placed as State::new places it (head right of the centre,     *)
(* two tail cells to its left), so that the board can fill up.  SpecStep   *)
(* calls step in State::new's own 15 x 15 state and in every state of the  *)
(* GridW x GridH game with at most MaxTail tail cells; SpecFood calls      *)
(* add_food in the latter.                                                 *)
(*                                                                         *)
(* Canvas.  Spec carries the pixel buffer, which render rewrites on every  *)
(* frame.  The frame counter (Canvas.frame_times, State.fps_update) is     *)
(* written by draw and by render's log line and read by that log line      *)
(* alone; neither the State nor the control flow depends on it.  Spec      *)
(* leaves it alone and SpecFps runs it on its own, with frames presented   *)
(* and time passing in any order.  SpecPixel and SpecRect call set_pixel   *)
(* and fill_rectangle with arguments inside and outside the canvas.        *)
(***************************************************************************)
EXTENDS Integers, Sequences, FiniteSets, TLC

\* Bounds of the model.
GridW == 3
GridH == 2
MaxTail == 3
MaxFrames == 4
FrameGap == 500
UsizeWrap == 65536

\* Program constants.
ScreenW == 15
ScreenH == 15
tick == 400
food_tick == 1500

\* Instant::now(): the origin of the time axis.
Now == 0

VARIABLES
    next_update,   \* State.next_update, as an offset from Now
    next_food,     \* State.next_food, as an offset from Now
    width,         \* State.width
    height,        \* State.height
    v,             \* State.v
    head,          \* State.head
    tail,          \* State.tail, index 1 nearest the head
    food,          \* State.food
    canvas,        \* Canvas: width, height and the pixel buffer
    frame_times,   \* Canvas.frame_times, as offsets from Now
    fps_update,    \* State.fps_update, as an offset from Now
    control_flow,  \* *control_flow of the event loop
    pressed,       \* history: the latest directional key press
    presented,     \* history: the times of the draw calls, and the number
                   \* of them up to a second old at the latest one
    stepped,       \* history: the time of the latest step call (of start-up
                   \* before any), Now - tick - 1 for longer than tick ago
    last,          \* history: the event handled last and what update did
    step_v,        \* history: the v of the latest successful step
    before         \* history: State and step_v before the latest event or call

vars == <<next_update, next_food, width, height, v, head, tail, food,
          canvas, frame_times, fps_update, control_flow, pressed,
          presented, stepped, last, step_v, before>>

----------------------------------------------------------------------------
\* Vec2 and small helpers

Vec2(x, y) == <<x, y>>

Vec2Add(a, b) == Vec2(a[1] + b[1], a[2] + b[2])

Neg(a) == Vec2(0 - a[1], 0 - a[2])

Dirs == {Vec2(1, 0), Vec2(0, 1), Vec2(-1, 0), Vec2(0, -1)}

Contains(s, x) == \E i \in 1..Len(s) : s[i] = x

Later(a, b) == IF a > b THEN a ELSE b

\* an Instant t seen d milliseconds later
Elapse(t, d) == Later(t - d, Now - 1)

\* The State struct as a record.
Self == [next_update |-> next_update, next_food |-> next_food,
         width |-> width, height |-> height,
         v |-> v, head |-> head, tail |-> tail, food |-> food]

----------------------------------------------------------------------------
\* State::new, on a w x h grid (15 x 15 in the program: head (8,7))

new(w, h) ==
    [next_update |-> Now + tick,
     next_food   |-> Now + food_tick,
     width  |-> w,
     height |-> h,
     v      |-> Vec2(1, 0),
     head   |-> Vec2(w \div 2 + 1, h \div 2),
     tail   |-> <<Vec2(w \div 2, h \div 2), Vec2(w \div 2 - 1, h \div 2)>>,
     food   |-> {}]

----------------------------------------------------------------------------
\* State::step

\* mutant: the far walls tested with > for >=
OutOfGridOffByOne(self, p) ==
    \/ p[1] < 0 \/ p[1] > self.width
    \/ p[2] < 0 \/ p[2] > self.height

OutOfGrid(self, p) ==
    \/ p[1] < 0 \/ p[1] >= self.width
    \/ p[2] < 0 \/ p[2] >= self.height

\* mutant: the whole tail tested, the last cell included
HitsWholeTail(self, new_head) == Contains(self.tail, new_head)

\* mutant: the last two tail cells left out of the test
HitsTailShort(self, new_head) ==
    Contains(SubSeq(self.tail, 1, Len(self.tail) - 2), new_head)

\* mutant: the first tail cell left out of the test
HitsTailSkipFirst(self, new_head) ==
    Contains(SubSeq(self.tail, 2, Len(self.tail) - 1), new_head)

\* self.tail[0..self.tail.len() - 1].contains(&new_head)
HitsTail(self, new_head) ==
    Contains(SubSeq(self.tail, 1, Len(self.tail) - 1), new_head)

\* mutant: the tail grows and the food stays
EatKeepsFood(self, new_head) ==
    IF new_head \in self.food
    THEN [self EXCEPT !.tail = Append(@, Vec2(0, 0))]
    ELSE self

\* if self.food.contains(&new_head) { tail.push(Vec2(0,0)); food.remove(..) }
Eat(self, new_head) ==
    IF new_head \in self.food
    THEN [self EXCEPT !.tail = Append(@, Vec2(0, 0)),
                      !.food = @ \ {new_head}]
    ELSE self

\* for i in (0..(len - 1)).rev() { tail[i + 1] = tail[i] }, from i downwards
RECURSIVE ShiftFrom(_, _)
ShiftFrom(t, i) ==
    IF i < 1 THEN t
    ELSE ShiftFrom([t EXCEPT ![i + 1] = t[i]], i - 1)

\* mutant: the loop run forwards, each cell overwritten before it is read
ShiftForward(t) == [i \in 1..Len(t) |-> t[1]]

\* mutant: the loop stops one cell short of the end
ShiftShort(t) == ShiftFrom(t, Len(t) - 2)

Shift(t) == ShiftFrom(t, Len(t) - 1)

step(self) ==
    LET new_head == Vec2Add(self.head, self.v) IN
    IF OutOfGrid(self, new_head) \/ HitsTail(self, new_head)
    THEN [ret |-> TRUE, self |-> self]
    ELSE LET s1 == Eat(self, new_head)
             s2 == [s1 EXCEPT !.tail = Shift(@)]
             s3 == [s2 EXCEPT !.tail[1] = s2.head]
         IN  [ret |-> FALSE,
              self |-> [s3 EXCEPT !.head = Vec2Add(s3.head, s3.v)]]

----------------------------------------------------------------------------
\* State::add_food

\* mutant: one free cell reserved, not two
SaturatedLate(self) ==
    Len(self.tail) + Cardinality(self.food) + 1 >= self.width * self.height

Saturated(self) ==
    Len(self.tail) + Cardinality(self.food) + 2 >= self.width * self.height

\* mutant: the index split by the height
PosOfByHeight(self, idx) == Vec2(idx % self.height, idx \div self.height)

PosOf(self, idx) == Vec2(idx % self.width, idx \div self.width)

\* mutant: a cell under the tail taken for free
FreeOffTail(self, pos) ==
    /\ pos \notin self.food
    /\ pos # self.head

Free(self, pos) ==
    /\ pos \notin self.food
    /\ ~Contains(self.tail, pos)
    /\ pos # self.head

\* The draws gen_range(0..total_nodes) that end the rejection loop.
Draws(self) ==
    {idx \in 0..(self.width * self.height - 1) : Free(self, PosOf(self, idx))}

\* The outcomes of add_food: one per draw that ends the loop.  With no free
\* cell the loop never ends and the call has no outcome.
add_food(self) ==
    IF Saturated(self)
    THEN {[ret |-> TRUE, self |-> self]}
    ELSE {[ret |-> FALSE,
           self |-> [self EXCEPT !.food = @ \cup {PosOf(self, idx)}]] :
             idx \in Draws(self)}

----------------------------------------------------------------------------
\* State::update.  calls lists the calls made (history only).

\* mutant: the step made at the deadline itself
UpdateStepAtDeadline(self) ==
    IF Now >= self.next_update
    THEN LET r == step(self) IN
         IF r.ret
         THEN [ret |-> TRUE, self |-> r.self, calls |-> <<"step">>]
         ELSE [ret |-> FALSE,
               self |-> [r.self EXCEPT !.next_update = Now + tick],
               calls |-> <<"step">>]
    ELSE [ret |-> FALSE, self |-> self, calls |-> <<>>]

UpdateStep(self) ==
    IF Now > self.next_update
    THEN LET r == step(self) IN
         IF r.ret
         THEN [ret |-> TRUE, self |-> r.self, calls |-> <<"step">>]
         ELSE [ret |-> FALSE,
               self |-> [r.self EXCEPT !.next_update = Now + tick],
               calls |-> <<"step">>]
    ELSE [ret |-> FALSE, self |-> self, calls |-> <<>>]

\* mutant: food spawned on the deadline alone
UpdateFoodOnDeadline(a) ==
    IF Now > a.self.next_food
    THEN {IF r.ret
          THEN [ret |-> TRUE, self |-> r.self,
                calls |-> Append(a.calls, "add_food")]
          ELSE [ret |-> FALSE,
                self |-> [r.self EXCEPT !.next_food = Now + food_tick],
                calls |-> Append(a.calls, "add_food")] :
            r \in add_food(a.self)}
    ELSE {a}

UpdateFood(a) ==
    IF a.self.food = {} \/ Now > a.self.next_food
    THEN {IF r.ret
          THEN [ret |-> TRUE, self |-> r.self,
                calls |-> Append(a.calls, "add_food")]
          ELSE [ret |-> FALSE,
                self |-> [r.self EXCEPT !.next_food = Now + food_tick],
                calls |-> Append(a.calls, "add_food")] :
            r \in add_food(a.self)}
    ELSE {a}

update(self) ==
    LET a == UpdateStep(self) IN
    IF a.ret THEN {a} ELSE UpdateFood(a)

----------------------------------------------------------------------------
\* State::on_keypress, handle_keypress

Keys == {"Right", "Up", "Left", "Down", "Escape", "Space"}

\* mutant: a key that reverses the direction is ignored
on_keypress_no_reverse(self, keycode) ==
    LET d == CASE keycode = "Right" -> Vec2(1, 0)
               [] keycode = "Up"    -> Vec2(0, 1)
               [] keycode = "Left"  -> Vec2(-1, 0)
               [] keycode = "Down"  -> Vec2(0, -1)
               [] OTHER             -> self.v
    IN  IF d = Neg(self.v) THEN self ELSE [self EXCEPT !.v = d]

on_keypress(self, keycode) ==
    CASE keycode = "Right" -> [self EXCEPT !.v = Vec2(1, 0)]
      [] keycode = "Up"    -> [self EXCEPT !.v = Vec2(0, 1)]
      [] keycode = "Left"  -> [self EXCEPT !.v = Vec2(-1, 0)]
      [] keycode = "Down"  -> [self EXCEPT !.v = Vec2(0, -1)]
      [] OTHER             -> self

\* mutant: Escape handed to on_keypress like any other key
handle_keypress_no_escape(keycode, self) ==
    [cf |-> "None", self |-> on_keypress(self, keycode)]

\* cf is the Option<ControlFlow> returned: "None", "Poll" or "Exit"
handle_keypress(keycode, self) ==
    IF keycode = "Escape"
    THEN [cf |-> "Exit", self |-> self]
    ELSE [cf |-> "None", self |-> on_keypress(self, keycode)]

----------------------------------------------------------------------------
\* Color and Canvas: the buffer holds width * height pixels, row by row,
\* storage index 0 first

\* Color::rgb: the u32 as its four bytes, lowest first
rgb(r, g, b) == <<r, g, b, 255>>

BG_COLOR == rgb(72, 178, 232)
HEAD_COLOR == rgb(78, 56, 232)
TAIL_COLOR == rgb(94, 72, 232)
FOOD_COLOR == rgb(158, 40, 232)

\* a pixel of the buffer Canvas::new gets from PixelsBuilder
NoColor == <<0, 0, 0, 0>>

CanvasNew(w, h) ==
    [width |-> w, height |-> h,
     pixels |-> [i \in 0..(w * h - 1) |-> NoColor]]

clear(cv, color) ==
    [cv EXCEPT !.pixels = [i \in DOMAIN cv.pixels |-> color]]

\* mutant: the row counted from the top, storage row y for logical row y
set_pixel_unflipped(cv, x, y, color) ==
    IF x < 0 \/ y < 0 THEN cv
    ELSE IF x >= cv.width \/ y >= cv.height THEN cv
    ELSE [cv EXCEPT !.pixels[cv.width * y + x] = color]

\* mutant: the far edges tested with > for >=
set_pixel_off_by_one(cv, x, y, color) ==
    IF x < 0 \/ y < 0 THEN cv
    ELSE IF x > cv.width \/ y > cv.height THEN cv
    ELSE LET i == cv.width * (cv.height - y - 1) + x IN
         IF i \in DOMAIN cv.pixels
         THEN [cv EXCEPT !.pixels[i] = color]
         ELSE cv

set_pixel(cv, x, y, color) ==
    IF x < 0 \/ y < 0 THEN cv
    ELSE IF x >= cv.width \/ y >= cv.height THEN cv
    ELSE [cv EXCEPT !.pixels[cv.width * (cv.height - y - 1) + x] = color]

\* Canvas::update_fps, fps: the frame counter.  Instants older than a
\* second are kept as Now - Second - 1.

Second == 1000

\* while *frame_times.front().unwrap() < second_ago { pop_front() }: the
\* Instant just pushed is never older, so the deque never runs empty
RECURSIVE PopOlder(_, _)
PopOlder(ft, second_ago) ==
    IF Head(ft) < second_ago
    THEN PopOlder(Tail(ft), second_ago)
    ELSE ft

\* mutant: an Instant exactly a second old popped too
RECURSIVE PopOlderOrEqual(_, _)
PopOlderOrEqual(ft, second_ago) ==
    IF Head(ft) < second_ago \/ (Head(ft) = second_ago /\ Len(ft) > 1)
    THEN PopOlderOrEqual(Tail(ft), second_ago)
    ELSE ft

\* mutant of update_fps
update_fps_exclusive(ft) == PopOlderOrEqual(Append(ft, Now), Now - Second)

update_fps(ft) == PopOlder(Append(ft, Now), Now - Second)

\* frame_times.len() as f32
fps(ft) == Len(ft)

\* clamp, as fill_rectangle calls it
clamp(input, min, max) ==
    IF input < min THEN min
    ELSE IF input > max THEN max
    ELSE input

\* for _ in 0..h { slice[offset..offset + w].fill(color); offset += width },
\* n rows to go; at lists the offsets used.  A range that starts after its
\* end or ends after the buffer's end panics.
RECURSIVE FillRows(_, _, _, _, _, _)
FillRows(cv, offset, w, n, color, at) ==
    IF n = 0
    THEN [panic |-> FALSE, canvas |-> cv, at |-> at]
    ELSE LET end == (offset + w) % UsizeWrap IN
         IF offset > end \/ end > cv.width * cv.height
         THEN [panic |-> TRUE, canvas |-> cv, at |-> Append(at, offset)]
         ELSE FillRows([cv EXCEPT !.pixels =
                          [i \in DOMAIN cv.pixels |->
                             IF i \in offset..(end - 1)
                             THEN color ELSE cv.pixels[i]]],
                       (offset + cv.width) % UsizeWrap, w, n - 1, color,
                       Append(at, offset))

\* The outcomes of fill_rectangle.  usize arithmetic wraps at UsizeWrap (2^64
\* in the program, above every index either way).  row is height - y0 - 1
\* before it is taken as a usize: where it is negative, a build that checks
\* overflow panics at the subtraction and a build that does not goes on with
\* the wrapped offset.
fill_rectangle(cv, x0, y0, w, h, color) ==
    LET cx0 == clamp(x0, 0, cv.width)
        cy0 == clamp(y0, 0, cv.height)
        ch == IF h > cy0 THEN cy0 ELSE h
        row == cv.height - cy0 - 1
        offset == (cv.width * (row % UsizeWrap) + cx0) % UsizeWrap
        filled == FillRows(cv, offset, w, ch, color, <<>>)
        unchecked == [panic |-> filled.panic, canvas |-> filled.canvas,
                      row |-> row, at |-> filled.at]
    IN  IF row < 0
        THEN {[panic |-> TRUE, canvas |-> cv, row |-> row, at |-> <<>>],
              unchecked}
        ELSE {unchecked}

----------------------------------------------------------------------------
\* State::render, the drawing part (the FPS log line is LogFps below)

\* for p in self.tail.iter() { canvas.set_pixel(p.0, p.1, color) }
RECURSIVE SetPixels(_, _, _)
SetPixels(cv, ps, color) ==
    IF ps = <<>> THEN cv
    ELSE SetPixels(set_pixel(cv, Head(ps)[1], Head(ps)[2], color),
                   Tail(ps), color)

\* for p in self.food.iter(): the cells of the HashSet in some order
RECURSIVE InSomeOrder(_)
InSomeOrder(S) ==
    IF S = {} THEN <<>>
    ELSE LET p == CHOOSE p \in S : TRUE IN <<p>> \o InSomeOrder(S \ {p})

render(self, cv) ==
    LET c0 == clear(cv, BG_COLOR)
        c1 == set_pixel(c0, self.head[1], self.head[2], HEAD_COLOR)
        c2 == SetPixels(c1, self.tail, TAIL_COLOR)
    IN  SetPixels(c2, InSomeOrder(self.food), FOOD_COLOR)

----------------------------------------------------------------------------
\* The events winit delivers, and handle_event

NoCalls == <<>>

Event(kind, key) == [kind |-> kind, key |-> key]

\* The events, one or more of each kind handle_event tells apart.  The loop
\* runs under ControlFlow::Poll until it exits, so a new iteration starts
\* with NewEvents(Poll), never with NewEvents(WaitCancelled), which shares
\* its arm.  A key release is handled alike for every key: two of them do.
Events ==
    {Event(k, "-") : k \in {"Init", "Poll", "Resized", "CloseRequested",
                            "RedrawRequested", "Other"}}
    \cup {Event("KeyPressed", key) : key \in Keys}
    \cup {Event("KeyReleased", key) : key \in {"Left", "Escape"}}

\* canvas.draw(): pixels.render() succeeds or fails as the backend decides
DrawResults == {"Ok", "Err"}

\* An outcome of handle_event: the Option<ControlFlow> returned, the State
\* and the Canvas afterwards, and (history) the calls update made, what it
\* returned, the calls the handler made in their order, and draw's result.
Handled(cf, self, cv) ==
    [cf |-> cf, self |-> self, canvas |-> cv,
     calls |-> NoCalls, ret |-> FALSE, did |-> <<>>, draw |-> "none"]

\* mutant: the frame rendered before the update
NewEventsPollRenderFirst(self, cv) ==
    UNION {IF u.ret
           THEN {[Handled("Exit", u.self, render(self, cv))
                    EXCEPT !.calls = u.calls, !.ret = TRUE,
                           !.did = <<"render", "update">>]}
           ELSE {[Handled(IF d = "Ok" THEN "None" ELSE "Exit",
                          u.self, render(self, cv))
                    EXCEPT !.calls = u.calls,
                           !.did = <<"render", "update", "draw">>,
                           !.draw = d] : d \in DrawResults} :
          u \in update(self)}

\* Event::NewEvents(StartCause::Poll) | Event::NewEvents(WaitCancelled)
NewEventsPoll(self, cv) ==
    UNION {IF u.ret
           THEN {[Handled("Exit", u.self, cv)
                    EXCEPT !.calls = u.calls, !.ret = TRUE,
                           !.did = <<"update">>]}
           ELSE {[Handled(IF d = "Ok" THEN "None" ELSE "Exit",
                          u.self, render(u.self, cv))
                    EXCEPT !.calls = u.calls,
                           !.did = <<"update", "render", "draw">>,
                           !.draw = d] : d \in DrawResults} :
          u \in update(self)}

\* Event::RedrawRequested
RedrawRequested(self, cv) ==
    {[Handled(IF d = "Ok" THEN "None" ELSE "Exit", self, render(self, cv))
        EXCEPT !.did = <<"render", "draw">>, !.draw = d] :
       d \in DrawResults}

\* resize_surface resizes the surface the buffer is scaled to, not the buffer
handle_event(event, self, cv) ==
    CASE event.kind = "Init" -> {Handled("Poll", self, cv)}
      [] event.kind \in {"Poll", "WaitCancelled"} -> NewEventsPoll(self, cv)
      [] event.kind = "CloseRequested" -> {Handled("Exit", self, cv)}
      [] event.kind = "KeyPressed" ->
           {Handled(handle_keypress(event.key, self).cf,
                    handle_keypress(event.key, self).self, cv)}
      [] event.kind = "RedrawRequested" -> RedrawRequested(self, cv)
      [] OTHER -> {Handled("None", self, cv)}

----------------------------------------------------------------------------
\* The state after a call left the State as s

Store(s) ==
    /\ next_update' = s.next_update
    /\ next_food' = s.next_food
    /\ width' = s.width
    /\ height' = s.height
    /\ v' = s.v
    /\ head' = s.head
    /\ tail' = s.tail
    /\ food' = s.food

\* The State is s
Is(s) ==
    /\ next_update = s.next_update
    /\ next_food = s.next_food
    /\ width = s.width
    /\ height = s.height
    /\ v = s.v
    /\ head = s.head
    /\ tail = s.tail
    /\ food = s.food

\* history: State, Canvas, control flow and the history as they are now
Snapshot ==
    [next_update |-> next_update, next_food |-> next_food,
     width |-> width, height |-> height,
     v |-> v, head |-> head, tail |-> tail, food |-> food,
     canvas |-> canvas, frame_times |-> frame_times,
     control_flow |-> control_flow, pressed |-> pressed,
     stepped |-> stepped, step_v |-> step_v]

\* history: a successful step (the head moved) records the v it used
Moved(s) == IF s.head # head THEN v ELSE step_v

\* history: what an event or call left behind, other than a handled event
Did(kind, calls, ret) ==
    [event |-> Event(kind, "-"), calls |-> calls, ret |-> ret,
     did |-> <<>>, draw |-> "none", args |-> <<>>]

KeyDirection(key) ==
    CASE key = "Right" -> <<1, 0>>
      [] key = "Up"    -> <<0, 1>>
      [] key = "Left"  -> <<-1, 0>>
      [] key = "Down"  -> <<0, -1>>

Directional(event) ==
    /\ event.kind = "KeyPressed"
    /\ event.key \in {"Right", "Up", "Left", "Down"}

\* history: key is the vector of the latest directional key press, n the
\* number of directional key presses since step was last called (2 for more)
Pressed(event, calls) ==
    IF Directional(event)
    THEN [key |-> KeyDirection(event.key),
          n |-> IF pressed.n < 2 THEN pressed.n + 1 ELSE 2]
    ELSE IF Contains(calls, "step")
         THEN [pressed EXCEPT !.n = 0]
         ELSE pressed

----------------------------------------------------------------------------
\* Spec: the event loop of main, from State::new and Canvas::new on the
\* GridW x GridH grid.  The frame counter is left to SpecFps.

\* the canvas, the event loop and the history before anything has happened
Fresh ==
    /\ canvas = CanvasNew(width, height)
    /\ frame_times = <<>>
    /\ fps_update = Now
    /\ control_flow = "Poll"
    /\ pressed = [key |-> Vec2(1, 0), n |-> 0]
    /\ presented = [times |-> <<>>, window |-> 0]
    /\ stepped = Now
    /\ last = Did("Start", NoCalls, FALSE)
    /\ step_v = Vec2(1, 0)
    /\ before = Snapshot

Init == Is(new(GridW, GridH)) /\ Fresh

\* The events the loop hands to the closure.  Once *control_flow is Exit the
\* loop starts no new iteration (no NewEvents), but the closure still gets
\* the events left in the iteration that set it.
Delivered ==
    IF control_flow = "Exit"
    THEN {e \in Events : e.kind \notin {"Init", "Poll", "WaitCancelled"}}
    ELSE Events

\* event_loop.run's closure: one event handled
Handle(event) ==
    /\ event \in Delivered
    /\ \E r \in handle_event(event, Self, canvas) :
         /\ Store(r.self)
         /\ canvas' = r.canvas
         /\ control_flow' = IF r.cf = "None" THEN control_flow ELSE r.cf
         /\ pressed' = Pressed(event, r.calls)
         /\ stepped' = IF Contains(r.calls, "step") THEN Now ELSE stepped
         /\ last' = [event |-> event, calls |-> r.calls, ret |-> r.ret,
                     did |-> r.did, draw |-> r.draw, args |-> <<>>]
         /\ step_v' = Moved(r.self)
         /\ before' = Snapshot
         /\ UNCHANGED <<frame_times, fps_update, presented>>

Delays == {tick, food_tick}

\* d milliseconds pass between two events; after Exit no deadline is read
TimePasses(d) ==
    /\ control_flow # "Exit"
    /\ next_update' = Elapse(next_update, d)
    /\ next_food' = Elapse(next_food, d)
    /\ stepped' = Later(stepped - d, Now - tick - 1)
    /\ last' = Did("Time", NoCalls, FALSE)
    /\ UNCHANGED <<width, height, v, head, tail, food, canvas, frame_times,
                   fps_update, control_flow, pressed, presented, step_v,
                   before>>

Next ==
    \/ \E event \in Events : Handle(event)
    \/ \E d \in Delays : TimePasses(d)

Spec == Init /\ [][Next]_vars

----------------------------------------------------------------------------
\* The states of the game on the w x h grid: a snake of adjacent, distinct
\* cells with 1..MaxTail tail cells (the program's own tail has 2 or more),
\* and food on cells the snake leaves free, as many as add_food's guard lets
\* through

Cells(w, h) == {Vec2(x, y) : x \in 0..(w - 1), y \in 0..(h - 1)}

Adjacent(a, b) == \E d \in Dirs : Vec2Add(a, d) = b

\* the snakes of n cells, head first
RECURSIVE Snakes(_, _, _)
Snakes(w, h, n) ==
    IF n = 1
    THEN {<<c>> : c \in Cells(w, h)}
    ELSE UNION {{Append(p, c) :
                   c \in {c \in Cells(w, h) : /\ Adjacent(p[Len(p)], c)
                                              /\ ~Contains(p, c)}} :
                p \in Snakes(w, h, n - 1)}

\* the State is one of these: snake p, v in ds, any food f
InGameState(w, h, ds) ==
    \E n \in 1..MaxTail :
      \E p \in Snakes(w, h, n + 1) :
        \E d \in ds :
          \E f \in SUBSET (Cells(w, h) \ {p[i] : i \in 1..Len(p)}) :
            /\ Len(p) + Cardinality(f) + 1 <= w * h
            /\ Is([new(w, h) EXCEPT !.v = d, !.head = Head(p),
                                    !.tail = Tail(p), !.food = f])

InitStep ==
    /\ Is(new(ScreenW, ScreenH)) \/ InGameState(GridW, GridH, Dirs)
    /\ Fresh

\* add_food never reads v: one of its values does
InitFood == InGameState(GridW, GridH, {Vec2(1, 0)}) /\ Fresh

\* state.step() called on its own
CallStep ==
    LET r == step(Self) IN
    /\ Store(r.self)
    /\ last' = Did("Call", <<"step">>, r.ret)
    /\ step_v' = Moved(r.self)
    /\ before' = Snapshot
    /\ UNCHANGED <<canvas, frame_times, fps_update, control_flow, pressed,
                   presented, stepped>>

SpecStep == InitStep /\ [][CallStep]_vars

\* state.add_food() called on its own
CallAddFood ==
    \E r \in add_food(Self) :
        /\ Store(r.self)
        /\ last' = Did("Call", <<"add_food">>, r.ret)
        /\ before' = Snapshot
        /\ UNCHANGED <<canvas, frame_times, fps_update, control_flow, pressed,
                       presented, stepped, step_v>>

SpecFood == InitFood /\ [][CallAddFood]_vars

----------------------------------------------------------------------------
\* SpecPixel: set_pixel called on the GridW x GridH canvas of Canvas::new,
\* at every cell of the canvas and one or two cells beyond each edge

\* canvas.set_pixel(x, y, color) called on its own
CallSetPixel(x, y, color) ==
    /\ canvas' = set_pixel(canvas, x, y, color)
    /\ last' = [Did("Call", <<"set_pixel">>, FALSE)
                  EXCEPT !.args = <<x, y, color>>]
    /\ before' = Snapshot
    /\ UNCHANGED <<next_update, next_food, width, height, v, head, tail, food,
                   frame_times, fps_update, control_flow, pressed, presented,
                   stepped, step_v>>

NextPixel ==
    \E x \in (-1)..(canvas.width + 1) : \E y \in (-1)..(canvas.height + 1) :
        CallSetPixel(x, y, HEAD_COLOR)

SpecPixel == Init /\ [][NextPixel]_vars

----------------------------------------------------------------------------
\* SpecFps: the frame counter.  Frames are presented and time passes in
\* multiples of FrameGap; fps is read by render's log line when it is due
\* and on its own.  At most MaxFrames frames are presented.

\* the Instants of a sequence seen d milliseconds later
RECURSIVE ElapseAll(_, _)
ElapseAll(ts, d) ==
    IF ts = <<>> THEN <<>>
    ELSE <<Later(Head(ts) - d, Now - Second - 1)>> \o ElapseAll(Tail(ts), d)

\* history: how many of the Instants ts are at most a second old
InWindow(ts) == Cardinality({i \in 1..Len(ts) : ts[i] >= Now - Second})

\* canvas.draw(): update_fps, then pixels.render(), whatever its result
Present ==
    /\ Len(presented.times) < MaxFrames
    /\ frame_times' = update_fps(frame_times)
    /\ presented' = [times |-> Append(presented.times, Now),
                     window |-> InWindow(Append(presented.times, Now))]
    /\ last' = Did("Call", <<"draw">>, FALSE)
    /\ before' = Snapshot
    /\ UNCHANGED <<next_update, next_food, width, height, v, head, tail, food,
                   canvas, fps_update, control_flow, pressed, stepped, step_v>>

\* State::render's log line: if Instant::now() > fps_update { info!(fps()) }
LogFps ==
    /\ Now > fps_update
    /\ fps_update' = Now + Second
    /\ last' = [Did("Call", <<"render", "fps">>, FALSE)
                  EXCEPT !.args = <<fps(frame_times)>>]
    /\ before' = Snapshot
    /\ UNCHANGED <<next_update, next_food, width, height, v, head, tail, food,
                   canvas, frame_times, control_flow, pressed, presented,
                   stepped, step_v>>

\* canvas.fps() called on its own
CallFps ==
    /\ last' = [Did("Call", <<"fps">>, FALSE)
                  EXCEPT !.args = <<fps(frame_times)>>]
    /\ before' = Snapshot
    /\ UNCHANGED <<next_update, next_food, width, height, v, head, tail, food,
                   canvas, frame_times, fps_update, control_flow, pressed,
                   presented, stepped, step_v>>

FpsDelays == {FrameGap, 2 * FrameGap, 3 * FrameGap}

TimePassesFps(d) ==
    /\ frame_times' = ElapseAll(frame_times, d)
    /\ fps_update' = Elapse(fps_update, d)
    /\ presented' = [presented EXCEPT !.times = ElapseAll(@, d)]
    /\ last' = Did("Time", NoCalls, FALSE)
    /\ UNCHANGED <<next_update, next_food, width, height, v, head, tail, food,
                   canvas, control_flow, pressed, stepped, step_v, before>>

NextFps ==
    \/ Present
    \/ LogFps
    \/ CallFps
    \/ \E d \in FpsDelays : TimePassesFps(d)

SpecFps == Init /\ [][NextFps]_vars

\* SpecRect: fill_rectangle called on the same canvas, anchored at every cell
\* and one cell beyond each edge, w up to one more than the canvas's width
\* and h up to its height; nothing is called after a panic.

\* canvas.fill_rectangle(x0, y0, w, h, color) called on its own; history:
\* ret is whether it panicked, did the row and the offsets used
CallFillRectangle(x0, y0, w, h, color) ==
    /\ ~last.ret
    /\ \E r \in fill_rectangle(canvas, x0, y0, w, h, color) :
         /\ canvas' = r.canvas
         /\ last' = [Did("Call", <<"fill_rectangle">>, r.panic)
                       EXCEPT !.args = <<x0, y0, w, h, color>>,
                              !.did = <<r.row>> \o r.at]
    /\ before' = Snapshot
    /\ UNCHANGED <<next_update, next_food, width, height, v, head, tail, food,
                   frame_times, fps_update, control_flow, pressed, presented,
                   stepped, step_v>>

NextRect ==
    \E x0 \in (-1)..canvas.width : \E y0 \in (-1)..canvas.height :
        \E w \in 1..(canvas.width + 1) : \E h \in 0..canvas.height :
            CallFillRectangle(x0, y0, w, h, FOOD_COLOR)

SpecRect == Init /\ [][NextRect]_vars

----------------------------------------------------------------------------
\* The contract of step and add_food, stated on the State before the call
\* (before) and the State after it

CalledStep == last.event.kind = "Call" /\ last.calls = <<"step">>

CalledAddFood == last.event.kind = "Call" /\ last.calls = <<"add_food">>

NewHead(b) == <<b.head[1] + b.v[1], b.head[2] + b.v[2]>>

Inside(b, p) == p[1] \in 0..(b.width - 1) /\ p[2] \in 0..(b.height - 1)

\* p is a tail cell of b other than the last one
InTailFront(b, p) == \E i \in 1..(Len(b.tail) - 1) : b.tail[i] = p

SnakeAndFoodAsBefore ==
    head = before.head /\ tail = before.tail /\ food = before.food /\ v = before.v

\* C1: a step whose new head is inside the grid, is no tail cell other than
\* the last and is no food cell returns false, moves the head by v, makes the
\* tail the old head followed by the old tail without its last cell, and
\* leaves food and v alone; from State::new's snake on the 15 x 15 grid it
\* gives head (9,7) and tail [(8,7),(7,7)].
C1_PlainStep ==
    /\ (/\ CalledStep
        /\ Inside(before, NewHead(before))
        /\ ~InTailFront(before, NewHead(before))
        /\ NewHead(before) \notin before.food)
       => /\ last.ret = FALSE
          /\ head = NewHead(before)
          /\ tail = <<before.head>> \o SubSeq(before.tail, 1, Len(before.tail) - 1)
          /\ Len(tail) = Len(before.tail)
          /\ food = before.food
          /\ v = before.v
    /\ (/\ CalledStep
        /\ before.width = 15 /\ before.height = 15
        /\ before.head = <<8, 7>>
        /\ before.tail = << <<7, 7>>, <<6, 7>> >>
        /\ before.v = <<1, 0>>)
       => /\ last.ret = FALSE
          /\ head = <<9, 7>>
          /\ tail = << <<8, 7>>, <<7, 7>> >>

C1_Witness ==
    /\ CalledStep /\ last.ret = FALSE
    /\ width = 15 /\ height = 15
    /\ before.head = <<8, 7>> /\ before.tail = << <<7, 7>>, <<6, 7>> >>
    /\ head = <<9, 7>> /\ tail = << <<8, 7>>, <<7, 7>> >>

\* C2: a step whose new head is outside the grid returns true and leaves
\* head, tail, food and v as they were.
C2_WallStep ==
    (/\ CalledStep
     /\ Inside(before, before.head)
     /\ ~Inside(before, NewHead(before)))
    => last.ret = TRUE /\ SnakeAndFoodAsBefore

C2_Witness ==
    /\ CalledStep /\ last.ret = TRUE
    /\ width = 15 /\ before.head = <<14, 7>> /\ before.v = <<1, 0>>
    /\ head = <<14, 7>>

\* C3: with the new head inside the grid, a step onto the last tail cell
\* alone returns false, and a step onto any other tail cell returns true
\* and changes nothing.
C3_TailExemption ==
    (CalledStep /\ Len(before.tail) >= 1 /\ Inside(before, NewHead(before)))
    => /\ (/\ NewHead(before) = before.tail[Len(before.tail)]
           /\ ~InTailFront(before, NewHead(before)))
          => last.ret = FALSE
       /\ InTailFront(before, NewHead(before))
          => last.ret = TRUE /\ SnakeAndFoodAsBefore

\* the head has moved onto the cell the last tail cell left
C3_Witness ==
    /\ CalledStep /\ last.ret = FALSE
    /\ NewHead(before) = before.tail[Len(before.tail)]
    /\ head = before.tail[Len(before.tail)]

\* C4: a successful step onto a food cell c makes the tail the old head
\* followed by the whole old tail (one cell longer, no placeholder left),
\* removes c from food and leaves every other food cell.
C4_Eating ==
    (CalledStep /\ last.ret = FALSE /\ NewHead(before) \in before.food)
    => /\ Len(tail) = Len(before.tail) + 1
       /\ tail = <<before.head>> \o before.tail
       /\ NewHead(before) \notin food
       /\ food = before.food \ {NewHead(before)}

C4_Witness ==
    /\ CalledStep /\ last.ret = FALSE
    /\ NewHead(before) \in before.food
    /\ Len(tail) = Len(before.tail) + 1
    /\ food # {}

\* C5: add_food returns true, and changes nothing, whenever
\* tail.len() + food.len() + 2 >= width * height, and returns false otherwise.
C5_SaturationGuard ==
    CalledAddFood
    => IF Len(before.tail) + Cardinality(before.food) + 2
            >= before.width * before.height
       THEN last.ret = TRUE /\ SnakeAndFoodAsBefore
       ELSE last.ret = FALSE

C5_Witness ==
    /\ CalledAddFood /\ last.ret = TRUE
    /\ Len(before.tail) + Cardinality(before.food) + 2
         >= before.width * before.height
    /\ food = before.food /\ food # {}

----------------------------------------------------------------------------
\* The game under the event loop (Spec)

Polled == last.event.kind \in {"Poll", "WaitCancelled"}

StepCalled == Polled /\ Len(last.calls) >= 1 /\ last.calls[1] = "step"

FoodCalled == Polled /\ Len(last.calls) >= 1
              /\ last.calls[Len(last.calls)] = "add_food"

\* C6: a step made with v the exact opposite of the v of the previous
\* successful step (of (1,0) before any step) returns true: head + v is
\* tail[0], and the tail has more than one cell.
C6_ReversalEnds ==
    (/\ Polled
     /\ Now > before.next_update
     /\ before.v = <<0 - before.step_v[1], 0 - before.step_v[2]>>)
    => /\ last.calls = <<"step">>
       /\ last.ret = TRUE
       /\ control_flow = "Exit"
       /\ head = before.head /\ tail = before.tail
       /\ Len(before.tail) > 1
       /\ NewHead(before) = before.tail[1]

\* a reversal after the snake has moved and turned
C6_Witness ==
    /\ StepCalled /\ last.ret = TRUE
    /\ before.v = <<0 - before.step_v[1], 0 - before.step_v[2]>>
    /\ before.step_v # <<1, 0>>
    /\ control_flow = "Exit"

\* C7: the head cell is never in the tail.
C7_HeadNotInTail == \A i \in 1..Len(tail) : tail[i] # head

\* the head has moved onto the cell the last tail cell left, the tail grown
C7_Witness ==
    /\ StepCalled /\ last.ret = FALSE
    /\ NewHead(before) = before.tail[Len(before.tail)]
    /\ head = NewHead(before)
    /\ Len(tail) > 2

\* C8: no food cell is the head or a tail cell.
C8_FoodOffSnake ==
    \A c \in food : c # head /\ \A i \in 1..Len(tail) : tail[i] # c

\* a step has eaten one food cell, another is left
C8_Witness ==
    /\ StepCalled /\ last.ret = FALSE
    /\ NewHead(before) \in before.food
    /\ Len(tail) = Len(before.tail) + 1
    /\ food # {}

\* C9: |food| + |tail| + 1 <= width * height.
C9_FitsGrid == Cardinality(food) + Len(tail) + 1 <= width * height

\* one update has eaten the only food cell and spawned another, which fills
\* the board as far as the guard allows
C9_Witness ==
    /\ Polled /\ last.calls = <<"step", "add_food">> /\ last.ret = FALSE
    /\ before.food = {NewHead(before)}
    /\ Len(tail) = Len(before.tail) + 1
    /\ Cardinality(food) = 1
    /\ Cardinality(food) + Len(tail) + 2 = width * height

\* C10: a press of Right/Up/Left/Down sets v to (1,0)/(0,1)/(-1,0)/(0,-1)
\* whatever v was and leaves head, tail, food and both deadlines alone; any
\* other key press but Escape, and every key release, leaves the whole State
\* alone, v included; no key press moves the snake.
C10_KeysOnlySteer ==
    /\ last.event.kind = "KeyPressed"
       => /\ head = before.head /\ tail = before.tail /\ food = before.food
          /\ next_update = before.next_update
          /\ next_food = before.next_food
          /\ width = before.width /\ height = before.height
    /\ (/\ last.event.kind = "KeyPressed"
        /\ last.event.key \in {"Right", "Up", "Left", "Down"})
       => v = KeyDirection(last.event.key)
    /\ (\/ last.event.kind = "KeyReleased"
        \/ /\ last.event.kind = "KeyPressed"
           /\ last.event.key \notin {"Right", "Up", "Left", "Down", "Escape"})
       => /\ v = before.v
          /\ head = before.head /\ tail = before.tail /\ food = before.food
          /\ next_update = before.next_update
          /\ next_food = before.next_food
          /\ width = before.width /\ height = before.height

\* Left pressed while the snake, having moved, heads right
C10_Witness ==
    /\ last.event = [kind |-> "KeyPressed", key |-> "Left"]
    /\ before.v = <<1, 0>> /\ before.step_v = <<1, 0>>
    /\ v = <<-1, 0>>
    /\ head # new(width, height).head

\* C11: the displacement of every successful step (new head minus old head)
\* is the vector of the latest directional key pressed before it, (1,0) if
\* there was none; a directional key pressed earlier since the previous step
\* changes nothing.
C11_LastKeyWins ==
    (StepCalled /\ last.ret = FALSE)
    => /\ <<head[1] - before.head[1], head[2] - before.head[2]>>
            = before.pressed.key
       /\ pressed.key = before.pressed.key

\* two directional keys were pressed since the previous successful step; the
\* step went the way of the second, which is not the way it went before
C11_Witness ==
    /\ StepCalled /\ last.ret = FALSE
    /\ before.pressed.n = 2
    /\ before.step_v # Vec2(1, 0)
    /\ before.pressed.key # before.step_v
    /\ head = Vec2Add(before.head, before.pressed.key)

\* the storage index of the pixel of grid cell p
PixelOf(p) == width * (height - 1 - p[2]) + p[1]

\* C12: on every poll tick the handler calls update, then render, then draw,
\* each once and in that order (the frame shows the State update left); when
\* update returns true it calls neither render nor draw, and the pixel
\* buffer stays as it was.
C12_UpdateRenderPresent ==
    Polled
    => IF last.ret
       THEN /\ last.did = <<"update">>
            /\ last.draw = "none"
            /\ canvas = before.canvas
       ELSE /\ last.did = <<"update", "render", "draw">>
            /\ last.draw \in {"Ok", "Err"}
            /\ canvas.pixels[PixelOf(head)] = HEAD_COLOR
            /\ \A c \in food : canvas.pixels[PixelOf(c)] = FOOD_COLOR

\* a poll tick whose update made a step and spawned food, then rendered and
\* presented the new frame over the previous one
C12_Witness ==
    /\ Polled /\ last.ret = FALSE
    /\ last.calls = <<"step", "add_food">>
    /\ last.did = <<"update", "render", "draw">>
    /\ last.draw = "Ok"
    /\ before.canvas.pixels[PixelOf(before.head)] = HEAD_COLOR
    /\ canvas.pixels[PixelOf(before.head)] = TAIL_COLOR
    /\ canvas.pixels[PixelOf(head)] = HEAD_COLOR

\* the latest action was the handling of an event
HandledEvent == last.event.kind \notin {"Start", "Time", "Call"}

\* the four events that end the loop
ExitEvent ==
    \/ last.event.kind = "CloseRequested"
    \/ last.event = Event("KeyPressed", "Escape")
    \/ last.draw = "Err"
    \/ Polled /\ last.ret

\* the loop is told to exit at a close request, an Escape press, a failed
\* draw and a poll tick whose update returns true, and at no other event
ExitExactlyThen ==
    (HandledEvent /\ before.control_flow # "Exit")
    => (control_flow = "Exit" <=> ExitEvent)

\* C13 (as claimed): the loop is told to exit at exactly the four events,
\* and once it has been told, no step, food spawn or direction change is
\* applied any more.
C13_ExitIsFinal ==
    /\ ExitExactlyThen
    /\ (HandledEvent /\ before.control_flow = "Exit")
       => /\ head = before.head /\ tail = before.tail
          /\ food = before.food
          /\ v = before.v

\* C13 (amended): the loop is told to exit at exactly the four events; once
\* it has been told, the control flow stays Exit and no step and no food
\* spawn is applied any more, but a directional key press handled after it
\* still sets v.
C13_ExitSignalled ==
    /\ ExitExactlyThen
    /\ (HandledEvent /\ before.control_flow = "Exit")
       => /\ control_flow = "Exit"
          /\ last.calls = NoCalls
          /\ head = before.head /\ tail = before.tail
          /\ food = before.food
          /\ next_update = before.next_update
          /\ next_food = before.next_food
          /\ v = IF Directional(last.event)
                 THEN KeyDirection(last.event.key)
                 ELSE before.v

\* Left pressed after the exit was signalled: v turns, the snake stays
C13_Witness ==
    /\ before.control_flow = "Exit" /\ control_flow = "Exit"
    /\ last.event = Event("KeyPressed", "Left")
    /\ before.v # Vec2(-1, 0) /\ v = Vec2(-1, 0)
    /\ head = before.head /\ tail = before.tail

Rendered == Contains(last.did, "render")

\* the colour render gives the grid cell p
ColorOf(p) ==
    IF p = head THEN HEAD_COLOR
    ELSE IF Contains(tail, p) THEN TAIL_COLOR
    ELSE IF p \in food THEN FOOD_COLOR
    ELSE BG_COLOR

PixelsOf(color) == {i \in DOMAIN canvas.pixels : canvas.pixels[i] = color}

\* C14: after every render the buffer holds, for each grid cell (x,y), at
\* storage index width*(height-1-y)+x, the head colour if (x,y) is the head,
\* the tail colour if it is a tail cell, the food colour if it is a food
\* cell and the background colour otherwise; every tail and food cell has a
\* pixel of its own.
C14_FrameShowsState ==
    Rendered
    => /\ DOMAIN canvas.pixels = 0..(width * height - 1)
       /\ \A x \in 0..(width - 1) : \A y \in 0..(height - 1) :
            canvas.pixels[width * (height - 1 - y) + x] = ColorOf(<<x, y>>)
       /\ Cardinality(PixelsOf(HEAD_COLOR)) = 1
       /\ Cardinality(PixelsOf(TAIL_COLOR)) = Len(tail)
       /\ Cardinality(PixelsOf(FOOD_COLOR)) = Cardinality(food)

\* a frame of a grown snake with its head on the bottom row and food on
\* the top row
C14_Witness ==
    /\ Rendered
    /\ Len(tail) = 3 /\ head[2] = 0
    /\ \E c \in food : c[2] = height - 1
    /\ canvas.pixels[width * (height - 1) + head[1]] = HEAD_COLOR
    /\ \E i \in 0..(width - 1) : canvas.pixels[i] = FOOD_COLOR

----------------------------------------------------------------------------
\* The Canvas (SpecPixel, SpecRect)

CalledSetPixel == last.event.kind = "Call" /\ last.calls = <<"set_pixel">>

\* C15: set_pixel(x, y, color) with x < 0, y < 0, x >= width or y >= height
\* leaves the whole buffer as it was; with (x,y) inside the canvas it sets
\* the pixel at storage index width*(height-1-y)+x, an index of the buffer,
\* to color and leaves every other pixel as it was.
C15_SetPixel ==
    CalledSetPixel
    => LET x == last.args[1]
           y == last.args[2]
           color == last.args[3]
           w == before.canvas.width
           h == before.canvas.height
       IN  /\ canvas.width = w /\ canvas.height = h
           /\ DOMAIN canvas.pixels = DOMAIN before.canvas.pixels
           /\ IF x < 0 \/ y < 0 \/ x >= w \/ y >= h
              THEN canvas = before.canvas
              ELSE /\ w * (h - 1 - y) + x \in DOMAIN before.canvas.pixels
                   /\ \A i \in DOMAIN canvas.pixels :
                        canvas.pixels[i] =
                          IF i = w * (h - 1 - y) + x
                          THEN color
                          ELSE before.canvas.pixels[i]

\* the right-hand cell of logical row 0 set: the last pixel of the buffer
C15_Witness ==
    /\ CalledSetPixel
    /\ last.args[1] = canvas.width - 1 /\ last.args[2] = 0
    /\ before.canvas.pixels[canvas.width * canvas.height - 1] = NoColor
    /\ canvas.pixels[canvas.width * canvas.height - 1] = HEAD_COLOR
    /\ canvas.pixels[canvas.width - 1] = NoColor

CalledFillRectangle ==
    last.event.kind = "Call" /\ last.calls = <<"fill_rectangle">>

\* C16: for every x0, y0, w and h, fill_rectangle does not panic, the row it
\* computes from the clamped y0 (height - y0 - 1) is a row of the buffer, and
\* every range offset..offset+w it fills lies inside the width*height
\* buffer.
C16_FillRectangleInBounds ==
    CalledFillRectangle
    => /\ ~last.ret
       /\ last.did[1] \in 0..(canvas.height - 1)
       /\ \A k \in 2..Len(last.did) :
            /\ last.did[k] >= 0
            /\ last.did[k] + last.args[3] <= canvas.width * canvas.height

----------------------------------------------------------------------------
\* The frame counter (SpecFps)

\* fps() has just been read, by render's log line or on its own
ReadFps == last.event.kind = "Call" /\ Contains(last.calls, "fps")

\* C17 (as claimed): whenever fps() is read, at any time, it is the number
\* of draw calls whose Instants lie within the second that ends then.
C17_FpsIsTrailingWindow ==
    ReadFps => last.args[1] = InWindow(presented.times)

\* C17 (amended): whenever fps() is read it is the number of draw calls
\* whose Instants were at most a second old at the latest draw call; right
\* after a draw call that is the number of draw calls within the second
\* that ends then.
C17_FpsAtLatestPresent ==
    ReadFps
    => /\ last.args[1] = presented.window
       /\ (/\ presented.times # <<>>
           /\ presented.times[Len(presented.times)] = Now)
          => last.args[1] = InWindow(presented.times)

\* fps() read right after the third frame: the first is just a second old
\* and still counted
C17_Witness ==
    /\ ReadFps
    /\ Len(presented.times) = 3
    /\ presented.times[1] = Now - Second
    /\ presented.times[3] = Now
    /\ last.args[1] = 3

----------------------------------------------------------------------------
\* The deadlines of update (Spec)

\* update's step returned true
StepEnded == StepCalled /\ last.ret /\ last.calls = <<"step">>

\* C18: an update makes at most one step, and makes it exactly when the
\* time is later than next_update; after a step that returned false
\* next_update is the time plus tick, otherwise it is left alone.  So a
\* step is made more than tick after the step before it (after start-up for
\* the first), and one step is made however long the gap was.
C18_StepDeadline ==
    Polled
    => /\ StepCalled <=> Now > before.next_update
       /\ Cardinality({i \in 1..Len(last.calls) : last.calls[i] = "step"}) <= 1
       /\ StepCalled => before.stepped < Now - tick
       /\ next_update = IF StepCalled /\ ~StepEnded
                        THEN Now + tick
                        ELSE before.next_update

\* a later step of the snake, made long after its deadline: one cell moved
C18_Witness ==
    /\ StepCalled /\ last.ret = FALSE
    /\ before.head # new(width, height).head
    /\ before.next_update = Now - 1 /\ Now > before.next_food
    /\ head = NewHead(before)
    /\ next_update = Now + tick

\* the food set when update checks it: a step has removed what it ate
FoodAtCheck ==
    IF StepCalled THEN before.food \ {NewHead(before)} ELSE before.food

\* C19: after every update that returns false food is not empty; update
\* calls add_food exactly when food is empty at the check, whatever
\* next_food is, or the time is later than next_food.
C19_FoodKeptUp ==
    /\ (Polled /\ ~last.ret) => food # {}
    /\ (Polled /\ ~StepEnded)
       => (FoodCalled <=> (FoodAtCheck = {} \/ Now > before.next_food))

\* a step ate the only food cell before next_food was due, and the same
\* update spawned another
C19_Witness ==
    /\ Polled /\ last.ret = FALSE
    /\ last.calls = <<"step", "add_food">>
    /\ before.food = {NewHead(before)}
    /\ before.next_food >= Now
    /\ food # {} /\ NewHead(before) \notin food
    /\ next_food = Now + food_tick

----------------------------------------------------------------------------
\* Food spawning (SpecFood)

\* the grid cells that are neither head nor tail nor food
FreeCells ==
    {c \in Cells(width, height) :
       c # head /\ ~Contains(tail, c) /\ c \notin food}

\* C20: wherever tail.len() + food.len() + 2 < width * height a grid cell is
\* neither head nor tail nor food, so a draw that ends add_food's loop
\* exists; an add_food that passed the guard returns false having added
\* exactly one cell to food, a grid cell that was neither food nor tail nor
\* head, with head, tail and v as they were.
C20_SpawnOnFreeCell ==
    /\ Len(tail) + Cardinality(food) + 2 < width * height => FreeCells # {}
    /\ (/\ CalledAddFood
        /\ Len(before.tail) + Cardinality(before.food) + 2
             < before.width * before.height)
       => /\ last.ret = FALSE
          /\ Cardinality(food) = Cardinality(before.food) + 1
          /\ \E c \in food :
               /\ food = before.food \cup {c}
               /\ c \notin before.food
               /\ ~Contains(before.tail, c)
               /\ c # before.head
               /\ Inside(before, c)
          /\ head = before.head /\ tail = before.tail /\ v = before.v

\* a second food cell spawned beside a grown snake, one free cell left
C20_Witness ==
    /\ CalledAddFood /\ last.ret = FALSE
    /\ Cardinality(before.food) = 1 /\ Cardinality(food) = 2
    /\ Len(tail) = 2
    /\ Cardinality(FreeCells) = 1

====
